---- MODULE Spec2Model ----
(***************************************************************************)
(* State-machine model of the light-transport core of the ray tracer:      *)
(* Scene (Initialize, RayCast, CalculateDirectIlluminationAtPos), the       *)
(* constructors of the renderers and of the material,                       *)
(* MonteCarloRenderer::TraceRay and PhotonMapRenderer::TraceRay.            *)
(*                                                                         *)
(* Geometry is abstracted: a ray is an identifier of Rays, and a primitive  *)
(* carries, for every ray, the distance at which the ray meets it (0: no    *)
(* intersection) and the cosine dot(-direction, normal) at that point.      *)
(* Real numbers are fixed point with ONE standing for 1.0f; FLT_EPSILON is  *)
(* smaller than the resolution, so x < FLT_EPSILON is x <= 0 and            *)
(* x > FLT_EPSILON is x > 0 on the grid.  Sequences are 1-based where the   *)
(* C++ vectors are 0-based.                                                 *)
(***************************************************************************)
EXTENDS Integers, Sequences, FiniteSets, TLC

VARIABLES
    renderGroups,            \* Scene::renderGroups
    emissiveRenderGroups,    \* Scene::emissiveRenderGroups (RenderGroup*)
    axisAlignedBoundingBox,  \* Scene::axisAlignedBoundingBox
    rgStorage,               \* identity of the buffer renderGroups lives in
    lastOp,                  \* the Scene operation that ran last
    rc,                      \* the last query of the Scene: out-parameters and
                             \* result of RayCast, or the activation of
                             \* CalculateDirectIlluminationAtPos
    renderer,                \* the renderer: its class and MAX_DEPTH
    cullDefault,             \* default of RayCast's cullBackFace parameter
    photonMap,               \* PhotonMapRenderer::photonMap: the stored photons
    volatilePhotonMapNodes,  \* PhotonMapRenderer::volatilePhotonMapNodes
    stack,                   \* per worker, the TraceRay activations
    pixel                    \* per worker, what GetPixelColor returned last

sceneVars == <<renderGroups, emissiveRenderGroups, axisAlignedBoundingBox, rgStorage>>
renderVars == <<renderer, cullDefault, photonMap, volatilePhotonMapNodes, stack, pixel>>
vars == <<renderGroups, emissiveRenderGroups, axisAlignedBoundingBox, rgStorage,
          lastOp, rc, renderer, cullDefault, photonMap, volatilePhotonMapNodes,
          stack, pixel>>

----------------------------------------------------------------------------
(* Bounds of the model. *)
MaxGroups == 2
MaxPrimitives == 2
MaxT == 2

(* Numbers. *)
ONE == 1000
FLT_MAX == 1000000

Rays == {"rayA", "rayB"}

LessThanEpsilon(x) == x <= 0
GreaterThanEpsilon(x) == x > 0

Min2(a, b) == IF a < b THEN a ELSE b
Max2(a, b) == IF a > b THEN a ELSE b

Vec3(x) == <<x, x, x>>
VAdd(a, b) == <<a[1] + b[1], a[2] + b[2], a[3] + b[3]>>
Mul(a, b) == (a * b) \div ONE
VScale(f, a) == <<Mul(f, a[1]), Mul(f, a[2]), Mul(f, a[3])>>
VMul(a, b) == <<Mul(a[1], b[1]), Mul(a[2], b[2]), Mul(a[3], b[3])>>
Black == Vec3(0)

----------------------------------------------------------------------------
(* Materials. *)
Material(surface, emission, refl, transp, refractiveIndex, spec) ==
    [surfaceColor |-> surface, emissionColor |-> emission, reflectivity |-> refl,
     transparency |-> transp, refractiveIndex |-> refractiveIndex, specularity |-> spec]

IsEmissive(m) ==
    GreaterThanEpsilon(Max2(m.emissionColor[1], Max2(m.emissionColor[2], m.emissionColor[3])))
IsReflective(m) == GreaterThanEpsilon(m.reflectivity)
IsTransparent(m) == GreaterThanEpsilon(m.transparency)
IsSpecular(m) == GreaterThanEpsilon(m.specularity)

White == Vec3(ONE)
Tint == <<ONE, ONE \div 2, 0>>

DiffuseWhite == Material(White, Black, 0, 0, ONE, 0)
LightWhite == Material(White, White, 0, 0, ONE, 0)
LightDark == Material(Black, <<0, 0, ONE \div 2>>, 0, 0, ONE, 0)

SceneMaterials == {DiffuseWhite, LightWhite, LightDark}

----------------------------------------------------------------------------
(* Primitives. *)
AABB(minimumPosition, maximumPosition) ==
    [minimum |-> minimumPosition, maximum |-> maximumPosition]

UnitBox == AABB(<<0, 0, 0>>, <<1, 1, 1>>)
FarBox == AABB(<<-2, 3, -1>>, <<-1, 5, 4>>)
Boxes == {UnitBox, FarBox}

Misses == [r \in Rays |-> 0]
Facing == [r \in Rays |-> ONE]
Backward == [r \in Rays |-> 0 - ONE]

Primitive(t, cosine, box) == [t |-> t, cosine |-> cosine, aabb |-> box]

\* the primitives Spec builds scenes of: every bounding box
BoxPrimitives == {Primitive(Misses, Facing, b) : b \in Boxes}
\* the primitives RayCastSpec builds scenes of: every distance along rayA (a
\* different one along rayB), seen from the front or from the back
HitTable(d) == [r \in Rays |-> IF r = "rayA" THEN d ELSE IF d = 0 THEN MaxT ELSE d - 1]
HitPrimitives ==
    {Primitive(HitTable(d), c, UnitBox) : d \in 0..MaxT, c \in {Facing, Backward}}

RayIntersection(p, ray, cullBackFace) ==
    /\ p.t[ray] > 0
    /\ ~(cullBackFace /\ p.cosine[ray] < 0)

NumPrimitives(groups) ==
    LET RECURSIVE Count(_)
        Count(i) == IF i > Len(groups) THEN 0
                    ELSE Len(groups[i].primitives) + Count(i + 1)
    IN Count(1)

----------------------------------------------------------------------------
(* Scene::Initialize *)
Address(storage, i) == [buf |-> storage, idx |-> i]

RECURSIVE CollectEmissiveAll(_, _, _, _)
CollectEmissiveAll(groups, storage, list, i) ==
    IF i > Len(groups) THEN list
    ELSE CollectEmissiveAll(groups, storage, Append(list, Address(storage, i)), i + 1)

RECURSIVE CollectEmissive(_, _, _, _)
CollectEmissive(groups, storage, list, i) ==
    IF i > Len(groups) THEN list
    ELSE CollectEmissive(groups, storage,
                         IF IsEmissive(groups[i].material)
                         THEN Append(list, Address(storage, i))
                         ELSE list,
                         i + 1)

AllPrimitives(groups) ==
    LET RECURSIVE Flat(_)
        Flat(i) == IF i > Len(groups) THEN <<>>
                   ELSE groups[i].primitives \o Flat(i + 1)
    IN Flat(1)

RECURSIVE BoundingBox(_, _, _, _)
BoundingBox(prims, k, minimumPosition, maximumPosition) ==
    IF k > Len(prims) THEN AABB(minimumPosition, maximumPosition)
    ELSE LET min == prims[k].aabb.minimum
             max == prims[k].aabb.maximum
         IN BoundingBox(prims, k + 1,
                [c \in 1..3 |-> Min2(min[c], minimumPosition[c])],
                [c \in 1..3 |-> Max2(max[c], maximumPosition[c])])

SceneBoundingBox(groups) ==
    BoundingBox(AllPrimitives(groups), 1, Vec3(FLT_MAX), Vec3(0 - FLT_MAX))

Initialize ==
    /\ emissiveRenderGroups' =
           CollectEmissive(renderGroups, rgStorage, emissiveRenderGroups, 1)
    /\ Len(emissiveRenderGroups') <= MaxGroups + MaxGroups
    /\ axisAlignedBoundingBox' = SceneBoundingBox(renderGroups)
    /\ lastOp' = "Initialize"
    /\ UNCHANGED <<renderGroups, rgStorage, rc>>
    /\ UNCHANGED renderVars

----------------------------------------------------------------------------
(* Scene construction: the caller appends render groups and primitives. *)
NoCall == [called |-> FALSE]

AddRenderGroup(mats) ==
    /\ Len(renderGroups) < MaxGroups
    /\ \E m \in mats :
           renderGroups' = Append(renderGroups, [material |-> m, primitives |-> <<>>])
    \* push_back may move the vector to a new buffer; the move shows only
    \* through the addresses taken before it
    /\ rgStorage' \in IF emissiveRenderGroups = <<>> THEN {rgStorage}
                      ELSE {rgStorage, rgStorage + 1}
    /\ lastOp' = "Add"
    /\ rc' = NoCall
    /\ UNCHANGED <<emissiveRenderGroups, axisAlignedBoundingBox>>
    /\ UNCHANGED renderVars

AddPrimitive(prims) ==
    /\ NumPrimitives(renderGroups) < MaxPrimitives
    /\ \E i \in 1..Len(renderGroups), p \in prims :
           renderGroups' = [renderGroups EXCEPT ![i].primitives = Append(@, p)]
    /\ lastOp' = "Add"
    /\ rc' = NoCall
    /\ UNCHANGED <<emissiveRenderGroups, axisAlignedBoundingBox, rgStorage>>
    /\ UNCHANGED renderVars

AddSceneRenderGroup == AddRenderGroup(SceneMaterials)
AddBoxPrimitive == AddPrimitive(BoxPrimitives)

Workers == {"w1", "w2"}
None == "none"
NoColor == <<>>
NoRenderer == [kind |-> None, MAX_DEPTH |-> 0]
NoPhotonMap == [indirect |-> <<>>, caustic |-> <<>>]

\* a scene under construction: no renderer exists yet
SceneInit ==
    /\ renderGroups = <<>>
    /\ emissiveRenderGroups = <<>>
    /\ axisAlignedBoundingBox = AABB(Vec3(0), Vec3(0))
    /\ rgStorage = 0
    /\ lastOp = "none"
    /\ rc = NoCall
    /\ renderer = NoRenderer
    /\ cullDefault = TRUE
    /\ photonMap = NoPhotonMap
    /\ volatilePhotonMapNodes = <<>>
    /\ stack = [w \in Workers |-> <<>>]
    /\ pixel = [w \in Workers |-> NoColor]

----------------------------------------------------------------------------
(* Scene::RayCast *)
CloserOrEqual(distance, closest) == distance <= closest
Farther(distance, closest) == closest = FLT_MAX \/ distance > closest
Closer(distance, closest) == distance < closest

RECURSIVE RayCastPrimitives(_, _, _, _, _, _)
RayCastPrimitives(groups, ray, cullBackFace, i, j, acc) ==
    IF j > Len(groups[i].primitives) THEN acc
    ELSE LET p == groups[i].primitives[j]
             intersectionDistance == p.t[ray]
         IN RayCastPrimitives(groups, ray, cullBackFace, i, j + 1,
                IF /\ RayIntersection(p, ray, cullBackFace)
                   /\ Closer(intersectionDistance, acc.closest)
                THEN [group |-> i, prim |-> j, closest |-> intersectionDistance]
                ELSE acc)

RECURSIVE RayCastGroups(_, _, _, _, _)
RayCastGroups(groups, ray, cullBackFace, i, acc) ==
    IF i > Len(groups) THEN acc
    ELSE RayCastGroups(groups, ray, cullBackFace, i + 1,
                       RayCastPrimitives(groups, ray, cullBackFace, i, 1, acc))

\* g0, p0: what the caller's index variables hold before the call; they are
\* written only when a primitive is hit
RayCastAtMost(groups, ray, cullBackFace, g0, p0) ==
    LET acc == RayCastGroups(groups, ray, cullBackFace, 1,
                             [group |-> g0, prim |-> p0, closest |-> FLT_MAX])
    IN [found |-> acc.closest <= FLT_MAX,
        group |-> acc.group, prim |-> acc.prim, distance |-> acc.closest]

RayCast(groups, ray, cullBackFace, g0, p0) ==
    LET acc == RayCastGroups(groups, ray, cullBackFace, 1,
                             [group |-> g0, prim |-> p0, closest |-> FLT_MAX])
    IN [found |-> acc.closest < FLT_MAX,
        group |-> acc.group, prim |-> acc.prim, distance |-> acc.closest]

\* a caller with uninitialised index variables casts a ray
RayCastCall ==
    \E ray \in Rays, cullBackFace \in BOOLEAN, g0 \in {0, MaxGroups}, p0 \in {0, MaxPrimitives} :
        /\ rc' = [called |-> TRUE, ray |-> ray, cullBackFace |-> cullBackFace,
                  result |-> RayCast(renderGroups, ray, cullBackFace, g0, p0)]
        /\ lastOp' = "RayCast"
        /\ UNCHANGED sceneVars
        /\ UNCHANGED renderVars

AddPlainRenderGroup == AddRenderGroup({DiffuseWhite})
AddHitPrimitive == AddPrimitive(HitPrimitives)

RayCastNext ==
    \/ AddPlainRenderGroup
    \/ AddHitPrimitive
    \/ RayCastCall

RayCastSpec == SceneInit /\ [][RayCastNext]_vars

Init == SceneInit

Next ==
    \/ AddSceneRenderGroup
    \/ AddBoxPrimitive
    \/ Initialize

Spec == Init /\ [][Next]_vars

----------------------------------------------------------------------------
(* The renderers: MonteCarloRenderer and PhotonMapRenderer.                 *)
(* A TraceRay activation is a frame; stack[w] is the recursion of worker w. *)
(* Directions that the code draws at random or computes from the geometry   *)
(* (shadow, diffuse, reflected and refracted rays, and their cosines with   *)
(* the hit normal) are chosen among the rays and cosines of the model.      *)
MaxDepth == 2

Kinds == {"MonteCarlo", "PhotonMap"}
TraceRays == Rays \cup {"rayZero"}
IsUnitLength(ray) == ray \in Rays
Cosines == {ONE \div 2, ONE}
Schlicks == {0, ONE \div 2}
Damping == (ONE * 95) \div 100

CalculateDiffuseLighting(m, cosIn, incomingRadiance) ==
    VScale(Max2(0, cosIn), VMul(incomingRadiance, m.surfaceColor))

\* lobe: max(0, dot(reflect(in, n), -out)) ^ specularExponent
CalculateSpecularLighting(m, lobe, incomingRadiance) ==
    VScale(Mul(lobe, m.specularity), incomingRadiance)

\* the photons of the map within the search radius of the point a ray hits
RECURSIVE PhotonsWithinRadius(_, _)
PhotonsWithinRadius(photons, ray) ==
    IF photons = <<>> THEN <<>>
    ELSE (IF ray \in Head(photons).near THEN <<Head(photons)>> ELSE <<>>)
         \o PhotonsWithinRadius(Tail(photons), ray)

RenderGroupRayCast(groups, ray, renderGroupIndex) ==
    LET acc == RayCastPrimitives(groups, ray, FALSE, renderGroupIndex, 1,
                                 [group |-> renderGroupIndex, prim |-> 0, closest |-> FLT_MAX])
    IN [found |-> acc.closest < FLT_MAX, prim |-> acc.prim, distance |-> acc.closest]

\* a point of the scene: from + direction * distance on one of the rays of an
\* activation; GetNormal is the normal of a primitive, evaluated at a point
PointOn(which, ray, distance) == [on |-> which, ray |-> ray, t |-> distance]
NoPoint == PointOn(None, None, 0)
GetNormal(primitiveIndex, point) == [prim |-> primitiveIndex, at |-> point]
NoNormal == GetNormal(0, NoPoint)

NewFrame(ray, DEPTH) ==
    [depth |-> DEPTH, ray |-> ray, pc |-> "entry", via |-> None, value |-> Black,
     group |-> 0, prim |-> 0, cos |-> 0, acc |-> Black, i |-> 0, sizeFactor |-> 0,
     schlick |-> 0, reflected |-> Black, queried |-> <<>>,
     intersectionPoint |-> NoPoint, refractedIntersectionPoint |-> NoPoint,
     refractedHitNormal |-> NoNormal, shadowRay |-> None]

Top(w) == stack[w][Len(stack[w])]
Running(w, pc) == stack[w] # <<>> /\ Top(w).pc = pc
SetTop(w, f) == stack' = [stack EXCEPT ![w] = [@ EXCEPT ![Len(@)] = f]]
Call(w, f, ray) ==
    stack' = [stack EXCEPT ![w] = Append([@ EXCEPT ![Len(@)] = f], NewFrame(ray, f.depth + 1))]
Done(f, value, via) == [f EXCEPT !.pc = "done", !.value = value, !.via = via]
HitMaterial(f) == renderGroups[f.group].material
Rf(m) == ONE - m.reflectivity
Tf(m) == ONE - m.transparency
Diffuses(m) == GreaterThanEpsilon(Rf(m)) /\ GreaterThanEpsilon(Tf(m))

GetPixelColor(w) ==
    /\ renderer.kind # None
    /\ stack[w] = <<>>
    /\ \E ray \in Rays : stack' = [stack EXCEPT ![w] = <<NewFrame(ray, 0)>>]
    /\ pixel' = [pixel EXCEPT ![w] = NoColor]
    /\ UNCHANGED <<sceneVars, lastOp, rc, renderer, cullDefault, photonMap,
                   volatilePhotonMapNodes>>

BeyondDepthLimit(DEPTH, MAX_DEPTH) == DEPTH > MAX_DEPTH
AtDepthLimit(DEPTH, MAX_DEPTH) == DEPTH = MAX_DEPTH

\* the depth test and the test of the ray's length: PhotonMapRenderer returns
\* black for a ray that is not of unit length, MonteCarloRenderer asserts that
\* it is; the assertion fails, or is compiled out and the call goes on
Enter(w) ==
    /\ Running(w, "entry")
    /\ LET f == Top(w)
       IN IF AtDepthLimit(f.depth, renderer.MAX_DEPTH)
          THEN SetTop(w, Done(f, Vec3(0), "limit"))
          ELSE IF IsUnitLength(f.ray)
          THEN SetTop(w, [f EXCEPT !.pc = "cast"])
          ELSE IF renderer.kind = "PhotonMap"
          THEN SetTop(w, Done(f, Vec3(0), "length"))
          ELSE \/ SetTop(w, [f EXCEPT !.pc = "failed"])
               \/ SetTop(w, [f EXCEPT !.pc = "cast"])
    /\ UNCHANGED <<sceneVars, lastOp, rc, renderer, cullDefault, photonMap,
                   volatilePhotonMapNodes, pixel>>

\* a failed assertion aborts the process: its calls and its renderer are gone
Abort(w) ==
    /\ Running(w, "failed")
    /\ stack' = [v \in Workers |-> <<>>]
    /\ renderer' = NoRenderer
    /\ UNCHANGED <<sceneVars, lastOp, rc, cullDefault, photonMap,
                   volatilePhotonMapNodes, pixel>>

MonteCarloEmissive(m, DEPTH, cos) ==
    LET f == IF DEPTH >= 1 THEN Mul(ONE, cos) ELSE ONE
        self == CalculateDiffuseLighting(m, ONE, m.emissionColor)
    IN VAdd(VScale(f, m.emissionColor), self)

PhotonMapEmissive(m, DEPTH, cos) ==
    LET f == IF DEPTH >= 1 THEN Mul(ONE, cos) ELSE ONE
    IN VScale(f, m.emissionColor)

\* the ray cast, the back-face test and the emissive branch
Cast(w) ==
    /\ Running(w, "cast")
    /\ LET f == Top(w)
           res == RayCast(renderGroups, f.ray, cullDefault, 0, 0)
       IN IF ~res.found
          THEN SetTop(w, Done(f, Vec3(0), "miss"))
          ELSE LET cos == renderGroups[res.group].primitives[res.prim].cosine[f.ray]
                   m == renderGroups[res.group].material
                   h == [f EXCEPT !.group = res.group, !.prim = res.prim, !.cos = cos,
                                  !.intersectionPoint = PointOn("ray", f.ray, res.distance)]
               IN IF LessThanEpsilon(cos)
                  THEN SetTop(w, Done(h, Vec3(0), "backface"))
                  ELSE IF IsEmissive(m)
                  THEN SetTop(w, Done(h, IF renderer.kind = "MonteCarlo"
                                         THEN MonteCarloEmissive(m, f.depth, cos)
                                         ELSE PhotonMapEmissive(m, f.depth, cos),
                                      "emissive"))
                  ELSE SetTop(w, [h EXCEPT !.pc = "direct", !.i = 1])
    /\ UNCHANGED <<sceneVars, lastOp, rc, renderer, cullDefault, photonMap,
                   volatilePhotonMapNodes, pixel>>

\* &renderGroup == lightSource
HitAnything(renderGroup, lightSource) == TRUE
HitTheLight(renderGroup, lightSource) == renderGroup = lightSource

\* what one light adds to the accumulator: shadowCos is dot(shadowRayDirection,
\* hitNormal), lobe the specular lobe of the shadow ray
LightContribution(kind, m, lightSource, shadowRay, shadowCos, lobe) ==
    IF LessThanEpsilon(shadowCos) THEN Black
    ELSE LET res == RayCast(renderGroups, shadowRay, cullDefault, 0, 0)
         IN IF ~res.found \/ ~HitTheLight(Address(rgStorage, res.group), lightSource)
            THEN Black
            ELSE LET lightFactor ==
                         renderGroups[res.group].primitives[res.prim].cosine[shadowRay]
                     radiance ==
                         VScale(lightFactor, renderGroups[lightSource.idx].material.emissionColor)
                 IN IF LessThanEpsilon(lightFactor) THEN Black
                    ELSE VAdd(VScale(Mul(Rf(m), Tf(m)),
                                     CalculateDiffuseLighting(m, shadowCos, radiance)),
                              IF kind = "MonteCarlo" /\ IsSpecular(m)
                              THEN CalculateSpecularLighting(m, lobe, radiance)
                              ELSE Black)

Lobes(m) == IF IsSpecular(m) THEN {0, ONE} ELSE {0}

\* one iteration of the loop over scene.emissiveRenderGroups
Direct(w) ==
    /\ Running(w, "direct")
    /\ LET f == Top(w)
           m == HitMaterial(f)
       IN IF ~Diffuses(m) \/ f.i > Len(emissiveRenderGroups)
          THEN SetTop(w, [f EXCEPT !.pc = "average", !.i = 0, !.shadowRay = None])
          ELSE \E shadowRay \in Rays, shadowCos \in {0} \cup Cosines, lobe \in Lobes(m) :
                   SetTop(w, [f EXCEPT
                       !.acc = VAdd(@, LightContribution(renderer.kind, m,
                                        emissiveRenderGroups[f.i], shadowRay, shadowCos, lobe)),
                       !.shadowRay = shadowRay,
                       !.i = @ + 1])
    /\ UNCHANGED <<sceneVars, lastOp, rc, renderer, cullDefault, photonMap,
                   volatilePhotonMapNodes, pixel>>

LightDivisor(n) == Max2(1, n)

Average(w) ==
    /\ Running(w, "average")
    /\ LET f == Top(w)
       IN SetTop(w, [f EXCEPT
              !.acc = VScale(ONE \div LightDivisor(Len(emissiveRenderGroups)), @),
              !.pc = "indirect"])
    /\ UNCHANGED <<sceneVars, lastOp, rc, renderer, cullDefault, photonMap,
                   volatilePhotonMapNodes, pixel>>

\* indirect lighting: a recursive diffuse ray (Monte Carlo) or the photon gather
Indirect(w) ==
    /\ Running(w, "indirect")
    /\ LET f == Top(w)
       IN IF ~Diffuses(HitMaterial(f))
          THEN SetTop(w, [f EXCEPT !.pc = "scale"])
          ELSE IF renderer.kind = "MonteCarlo"
          THEN \E diffuseRay \in Rays : Call(w, [f EXCEPT !.pc = "indirectCall"], diffuseRay)
          ELSE SetTop(w, [f EXCEPT !.pc = "gather"])
    /\ UNCHANGED <<sceneVars, lastOp, rc, renderer, cullDefault, photonMap,
                   volatilePhotonMapNodes, pixel>>

\* the radius query fills the renderer's scratch vector
GatherQueryMoving(w) ==
    /\ Running(w, "gather")
    /\ LET f == Top(w)
           found == PhotonsWithinRadius(photonMap.indirect, f.ray)
       IN /\ volatilePhotonMapNodes' = found
          /\ photonMap' = [photonMap EXCEPT !.indirect =
                 SelectSeq(@, LAMBDA ph : f.ray \notin ph.near)]
          /\ SetTop(w, [f EXCEPT !.pc = "size", !.queried = found])
    /\ UNCHANGED <<sceneVars, lastOp, rc, renderer, cullDefault, pixel>>

GatherQuery(w) ==
    /\ Running(w, "gather")
    /\ LET f == Top(w)
           found == PhotonsWithinRadius(photonMap.indirect, f.ray)
       IN /\ volatilePhotonMapNodes' = found
          /\ SetTop(w, [f EXCEPT !.pc = "size", !.queried = found])
    /\ UNCHANGED <<sceneVars, lastOp, rc, renderer, cullDefault, photonMap, pixel>>

GatherSize(w) ==
    /\ Running(w, "size")
    /\ LET f == Top(w)
           n == Len(volatilePhotonMapNodes)
       IN SetTop(w, [f EXCEPT !.sizeFactor = IF n > 0 THEN ONE \div n ELSE 0,
                              !.i = 1, !.pc = "photons"])
    /\ UNCHANGED <<sceneVars, lastOp, rc, renderer, cullDefault, photonMap,
                   volatilePhotonMapNodes, pixel>>

\* one iteration of the loop over volatilePhotonMapNodes
GatherPhoton(w) ==
    /\ Running(w, "photons")
    /\ LET f == Top(w)
       IN IF f.i > Len(volatilePhotonMapNodes)
          THEN SetTop(w, [f EXCEPT !.pc = "scale", !.i = 0])
          ELSE LET node == volatilePhotonMapNodes[f.i]
                   factor == Mul(Mul(f.sizeFactor, Max2(0, node.normalDot)), node.weight)
               IN SetTop(w, [f EXCEPT
                      !.acc = VAdd(@, CalculateDiffuseLighting(HitMaterial(f), node.cosIn,
                                          VScale(factor, node.color))),
                      !.i = @ + 1])
    /\ UNCHANGED <<sceneVars, lastOp, rc, renderer, cullDefault, photonMap,
                   volatilePhotonMapNodes, pixel>>

Scale(w) ==
    /\ Running(w, "scale")
    /\ LET f == Top(w)
           m == HitMaterial(f)
       IN SetTop(w, [f EXCEPT !.acc = VScale(Mul(Rf(m), Tf(m)), @), !.pc = "refract"])
    /\ UNCHANGED <<sceneVars, lastOp, rc, renderer, cullDefault, photonMap,
                   volatilePhotonMapNodes, pixel>>

\* glm::refract(I, N, eta) is the zero vector on total internal reflection,
\* which takes eta > 1: on entry eta is 1 / refractiveIndex, on exit
\* refractiveIndex / 1
RefractedIn(m) == IF m.refractiveIndex < ONE THEN TraceRays ELSE Rays
RefractedOut(m) == IF m.refractiveIndex > ONE THEN TraceRays ELSE Rays

\* refraction: the refracted ray leaves through the same render group when
\* RenderGroupRayCast finds an exit, and the normal at the exit is taken
Refract(w) ==
    /\ Running(w, "refract")
    /\ LET f == Top(w)
           m == HitMaterial(f)
       IN IF ~IsTransparent(m)
          THEN SetTop(w, [f EXCEPT !.pc = "reflect"])
          ELSE \E refractedRay \in RefractedIn(m), schlickConstantOutside \in Schlicks :
                   LET hit == RenderGroupRayCast(renderGroups, refractedRay, f.group)
                       refractedIntersectionPoint ==
                           PointOn("refractedRay", refractedRay, hit.distance)
                       k == IF renderer.kind = "MonteCarlo" THEN schlickConstantOutside ELSE 0
                   IN IF hit.found
                      THEN SetTop(w, [f EXCEPT
                               !.pc = "exit",
                               !.schlick = k,
                               !.refractedIntersectionPoint = refractedIntersectionPoint,
                               !.refractedHitNormal =
                                   IF renderer.kind = "MonteCarlo"
                                   THEN GetNormal(hit.prim, refractedIntersectionPoint)
                                   ELSE GetNormal(hit.prim, f.intersectionPoint)])
                      ELSE Call(w, [f EXCEPT
                                    !.pc = IF renderer.kind = "MonteCarlo"
                                           THEN "refractCall" ELSE "pmRefractCall",
                                    !.schlick = k],
                                refractedRay)
    /\ UNCHANGED <<sceneVars, lastOp, rc, renderer, cullDefault, photonMap,
                   volatilePhotonMapNodes, pixel>>

\* the second refraction, at the exit normal, gives the ray that is traced;
\* the exit point and its normal are not used after it
RefractOut(w) ==
    /\ Running(w, "exit")
    /\ LET f == Top(w)
       IN \E refractedRayOut \in RefractedOut(HitMaterial(f)) :
              Call(w, [f EXCEPT
                       !.pc = IF renderer.kind = "MonteCarlo"
                              THEN "refractOutCall" ELSE "pmRefractCall",
                       !.refractedIntersectionPoint = NoPoint,
                       !.refractedHitNormal = NoNormal],
                   refractedRayOut)
    /\ UNCHANGED <<sceneVars, lastOp, rc, renderer, cullDefault, photonMap,
                   volatilePhotonMapNodes, pixel>>

\* MonteCarloRenderer: the specular ray that follows the refraction
Specular(w) ==
    /\ Running(w, "specular")
    /\ \E specularRay \in Rays : Call(w, [Top(w) EXCEPT !.pc = "specularCall"], specularRay)
    /\ UNCHANGED <<sceneVars, lastOp, rc, renderer, cullDefault, photonMap,
                   volatilePhotonMapNodes, pixel>>

Reflect(w) ==
    /\ Running(w, "reflect")
    /\ LET f == Top(w)
       IN IF ~IsReflective(HitMaterial(f))
          THEN SetTop(w, [f EXCEPT !.pc = "finish"])
          ELSE \E reflectedRay \in Rays : Call(w, [f EXCEPT !.pc = "reflectCall"], reflectedRay)
    /\ UNCHANGED <<sceneVars, lastOp, rc, renderer, cullDefault, photonMap,
                   volatilePhotonMapNodes, pixel>>

MonteCarloResult(colorAccumulator) == colorAccumulator
PhotonMapResultUndamped(colorAccumulator) == colorAccumulator
PhotonMapResult(colorAccumulator) == VScale(Damping, colorAccumulator)

Finish(w) ==
    /\ Running(w, "finish")
    /\ LET f == Top(w)
       IN SetTop(w, Done(f, IF renderer.kind = "MonteCarlo"
                            THEN MonteCarloResult(f.acc)
                            ELSE PhotonMapResult(f.acc), "body"))
    /\ UNCHANGED <<sceneVars, lastOp, rc, renderer, cullDefault, photonMap,
                   volatilePhotonMapNodes, pixel>>

\* the caller takes the radiance of the call it made and goes on; cos, lobe
\* and schlickConstantInside are the geometric factors of the call site
Resume(f, m, radiance, cos, lobe, schlickConstantInside) ==
    CASE f.pc = "indirectCall" ->
             [f EXCEPT !.acc = VAdd(@, CalculateDiffuseLighting(m, cos, radiance)),
                       !.pc = "scale"]
      [] f.pc = "refractOutCall" ->
             LET f1 == Mul(ONE - f.schlick, m.transparency)
                 f2 == ONE - schlickConstantInside
                 incomingRadiance == VScale(f2, radiance)
             IN [f EXCEPT !.acc = VAdd(@, VScale(f1,
                                   CalculateDiffuseLighting(m, cos, incomingRadiance))),
                          !.pc = "specular"]
      [] f.pc = "refractCall" ->
             [f EXCEPT !.acc = VAdd(@, VScale(Mul(ONE - f.schlick, m.transparency), radiance)),
                       !.pc = "specular"]
      [] f.pc = "specularCall" ->
             LET sf == Mul(f.schlick, m.specularity)
             IN [f EXCEPT !.acc = VAdd(@, VScale(sf,
                                   CalculateSpecularLighting(m, lobe, radiance))),
                          !.schlick = 0, !.pc = "reflect"]
      [] f.pc = "pmRefractCall" ->
             [f EXCEPT !.acc = VAdd(@, VScale(m.transparency, radiance)), !.pc = "reflect"]
      [] f.pc = "reflectCall" ->
             [f EXCEPT !.acc = VAdd(@, VScale(m.reflectivity, radiance)),
                       !.reflected = radiance, !.pc = "finish"]

CosinesAt(pc) == IF pc \in {"indirectCall", "refractOutCall"} THEN Cosines ELSE {ONE}
LobesAt(pc) == IF pc = "specularCall" THEN {0, ONE} ELSE {0}
SchlicksAt(pc) == IF pc = "refractOutCall" THEN Schlicks ELSE {0}

\* TraceRay returns: to GetPixelColor, or to the TraceRay that called it
Return(w) ==
    /\ Running(w, "done")
    /\ LET s == stack[w]
           n == Len(s)
       IN IF n = 1
          THEN /\ stack' = [stack EXCEPT ![w] = <<>>]
               /\ pixel' = [pixel EXCEPT ![w] = s[n].value]
          ELSE /\ \E cos \in CosinesAt(s[n - 1].pc), lobe \in LobesAt(s[n - 1].pc),
                     k \in SchlicksAt(s[n - 1].pc) :
                      stack' = [stack EXCEPT ![w] =
                          Append(SubSeq(s, 1, n - 2),
                                 Resume(s[n - 1], HitMaterial(s[n - 1]), s[n].value,
                                        cos, lobe, k))]
               /\ UNCHANGED pixel
    /\ UNCHANGED <<sceneVars, lastOp, rc, renderer, cullDefault, photonMap,
                   volatilePhotonMapNodes>>

----------------------------------------------------------------------------
(* Scenes and photon maps the renderers are run on. *)
Surface(tA, cosA, tB, cosB) ==
    Primitive([r \in TraceRays |-> CASE r = "rayA" -> tA [] r = "rayB" -> tB [] OTHER -> 0],
              [r \in TraceRays |-> CASE r = "rayA" -> cosA [] r = "rayB" -> cosB [] OTHER -> 0],
              UnitBox)
Group(m, prims) == [material |-> m, primitives |-> prims]

DiffuseTint == Material(Tint, Black, 0, 0, ONE, 0)
Mirror == Material(White, Black, ONE, 0, ONE, 0)
Glass == Material(White, Black, 0, ONE, (3 * ONE) \div 2, ONE \div 2)
Glossy == Material(Tint, Black, ONE \div 2, 0, ONE, ONE \div 2)

EmptyScene == <<>>
HollowScene == <<Group(DiffuseWhite, <<>>)>>
LampScene == <<Group(LightWhite, <<Surface(1, ONE, MaxT, 0 - ONE \div 2)>>)>>
RoomScene == <<Group(DiffuseTint, <<Surface(1, ONE, 0, 0)>>),
               Group(LightWhite, <<Surface(MaxT, ONE, 1, ONE \div 2)>>)>>
MirrorScene == <<Group(Mirror, <<Surface(1, ONE, 0, 0)>>),
                 Group(LightDark, <<Surface(0, 0, 1, ONE \div 2)>>)>>
GlassScene == <<Group(Glass, <<Surface(1, ONE, MaxT, ONE)>>),
                Group(LightWhite, <<Surface(0, 0, 1, ONE)>>)>>
WallScene == <<Group(DiffuseTint, <<Surface(1, ONE, MaxT, ONE \div 2)>>),
               Group(LightWhite, <<Surface(0, 0, 0, 0)>>)>>
GlossyScene == <<Group(LightDark, <<Surface(0, 0, 1, ONE)>>),
                 Group(Glossy, <<Surface(1, ONE \div 2, MaxT, ONE)>>)>>
\* two lights, the second behind the first along rayB
TwoLampScene == <<Group(DiffuseWhite, <<Surface(1, ONE, 0, 0)>>),
                  Group(LightDark, <<Surface(0, 0, 1, ONE)>>),
                  Group(LightWhite, <<Surface(MaxT, ONE, MaxT, ONE)>>)>>
TraceScenes ==
    {EmptyScene, HollowScene, LampScene, RoomScene, MirrorScene, GlassScene, WallScene,
     GlossyScene, TwoLampScene}

Photon(near, color, cosIn, normalDot, weight) ==
    [near |-> near, color |-> color, cosIn |-> cosIn, normalDot |-> normalDot,
     weight |-> weight]
PhotonA == Photon({"rayA"}, White, ONE, ONE, ONE \div 2)
PhotonB == Photon({"rayA", "rayB"}, Tint, ONE \div 2, ONE, ONE)
PhotonC == Photon({"rayA"}, White, ONE, ONE, ONE)
PhotonMaps ==
    {[indirect |-> <<>>, caustic |-> <<>>],
     [indirect |-> <<PhotonA, PhotonB>>, caustic |-> <<>>],
     [indirect |-> <<PhotonA, PhotonB>>, caustic |-> <<PhotonC>>]}

\* PhotonMap::PhotonMap shoots photons from the emissive render groups
NewPhotonMap(lights) == IF lights = <<>> THEN {NoPhotonMap} ELSE PhotonMaps

\* a scene on which Initialize ran, once or twice, and a renderer constructed
\* over it
TraceInit ==
    /\ renderGroups \in TraceScenes
    /\ rgStorage = 0
    /\ LET once == CollectEmissive(renderGroups, rgStorage, <<>>, 1)
       IN emissiveRenderGroups \in {once, CollectEmissive(renderGroups, rgStorage, once, 1)}
    /\ axisAlignedBoundingBox = SceneBoundingBox(renderGroups)
    /\ lastOp = "Initialize"
    /\ rc = NoCall
    /\ renderer \in [kind : Kinds, MAX_DEPTH : 0..MaxDepth]
    /\ cullDefault \in BOOLEAN
    /\ photonMap \in IF renderer.kind = "PhotonMap" THEN NewPhotonMap(emissiveRenderGroups)
                      ELSE {NoPhotonMap}
    /\ volatilePhotonMapNodes = <<>>
    /\ stack = [w \in Workers |-> <<>>]
    /\ pixel = [w \in Workers |-> NoColor]

TraceStep(w) ==
    \/ GetPixelColor(w)
    \/ Enter(w)
    \/ Abort(w)
    \/ Cast(w)
    \/ Direct(w)
    \/ Average(w)
    \/ Indirect(w)
    \/ GatherQuery(w)
    \/ GatherSize(w)
    \/ GatherPhoton(w)
    \/ Scale(w)
    \/ Refract(w)
    \/ RefractOut(w)
    \/ Specular(w)
    \/ Reflect(w)
    \/ Finish(w)
    \/ Return(w)

TraceNext == TraceStep("w1")

TraceSpec == TraceInit /\ [][TraceNext]_vars

\* a call that was made runs to its end: TraceRay does not wait for anything
Execute(w) ==
    \/ Enter(w) \/ Abort(w) \/ Cast(w) \/ Direct(w) \/ Average(w) \/ Indirect(w)
    \/ GatherQuery(w) \/ GatherSize(w) \/ GatherPhoton(w) \/ Scale(w)
    \/ Refract(w) \/ RefractOut(w) \/ Specular(w) \/ Reflect(w) \/ Finish(w) \/ Return(w)

FairTraceSpec == TraceInit /\ [][TraceNext]_vars /\ WF_vars(Execute("w1"))

\* two workers render pixels with one PhotonMapRenderer
WorkerInit ==
    /\ renderGroups = WallScene
    /\ rgStorage = 0
    /\ emissiveRenderGroups = CollectEmissive(renderGroups, rgStorage, <<>>, 1)
    /\ axisAlignedBoundingBox = SceneBoundingBox(renderGroups)
    /\ lastOp = "Initialize"
    /\ rc = NoCall
    /\ renderer \in [kind : {"PhotonMap"}, MAX_DEPTH : 1..MaxDepth]
    /\ cullDefault \in BOOLEAN
    /\ photonMap = [indirect |-> <<PhotonA, PhotonB>>, caustic |-> <<>>]
    /\ volatilePhotonMapNodes = <<>>
    /\ stack = [w \in Workers |-> <<>>]
    /\ pixel = [w \in Workers |-> NoColor]

WorkerStep(w) ==
    \/ GetPixelColor(w)
    \/ Enter(w)
    \/ Cast(w)
    \/ Direct(w)
    \/ Average(w)
    \/ Indirect(w)
    \/ GatherQuery(w)
    \/ GatherSize(w)
    \/ GatherPhoton(w)
    \/ Scale(w)
    \/ Refract(w)
    \/ Reflect(w)
    \/ Finish(w)
    \/ Return(w)

WorkerNext == \E w \in Workers : WorkerStep(w)

WorkerSpec == WorkerInit /\ [][WorkerNext]_vars

----------------------------------------------------------------------------
(* Construction: the caller builds materials, assembles the scene, calls    *)
(* Initialize and constructs a renderer over the scene.                     *)

\* a material whose refractive index is below that of vacuum
Rarefied == Material(White, Black, 0, ONE \div 2, ONE \div 2, 0)
BuildMaterials == {DiffuseWhite, LightWhite, Glass, Rarefied}

AddBuiltRenderGroup == AddRenderGroup(BuildMaterials)

MonteCarloRenderer ==
    /\ renderer = NoRenderer
    /\ \E _MAX_DEPTH \in 0..MaxDepth :
           renderer' = [kind |-> "MonteCarlo", MAX_DEPTH |-> _MAX_DEPTH]
    /\ lastOp' = "Construct"
    /\ UNCHANGED <<sceneVars, rc, cullDefault, photonMap, volatilePhotonMapNodes,
                   stack, pixel>>

PhotonMapRenderer ==
    /\ renderer = NoRenderer
    /\ \E _MAX_DEPTH \in 0..MaxDepth :
           renderer' = [kind |-> "PhotonMap", MAX_DEPTH |-> _MAX_DEPTH]
    /\ photonMap' \in NewPhotonMap(emissiveRenderGroups)
    /\ volatilePhotonMapNodes' = <<>>
    /\ lastOp' = "Construct"
    /\ UNCHANGED <<sceneVars, rc, cullDefault, stack, pixel>>

BuildNext ==
    \/ AddBuiltRenderGroup
    \/ Initialize
    \/ MonteCarloRenderer
    \/ PhotonMapRenderer

BuildSpec == SceneInit /\ [][BuildNext]_vars

----------------------------------------------------------------------------
(* Scene::CalculateDirectIlluminationAtPos: rc is the activation of the     *)
(* call, its loop over emissiveRenderGroups taken one iteration at a time.  *)
NaN == "NaN"
PosMaterials == {DiffuseWhite, DiffuseTint}

CalculateDirectIlluminationAtPos ==
    /\ IF lastOp = "CalculateDirectIlluminationAtPos" THEN rc.pc = "done" ELSE TRUE
    /\ \E material \in PosMaterials :
           rc' = [called |-> FALSE, pc |-> "loop", material |-> material, i |-> 1,
                  colorAccumulator |-> Black, divisor |-> 0, result |-> NoColor]
    /\ lastOp' = "CalculateDirectIlluminationAtPos"
    /\ UNCHANGED sceneVars
    /\ UNCHANGED renderVars

\* one light source: the ray towards it is cast without back-face culling,
\* and any emissive render group it hits counts
IlluminateFromLight ==
    /\ lastOp = "CalculateDirectIlluminationAtPos" /\ rc.pc = "loop"
    /\ rc.i <= Len(emissiveRenderGroups)
    /\ \E ray \in Rays, cos \in {0} \cup Cosines :
           LET lightSource == renderGroups[emissiveRenderGroups[rc.i].idx]
               res == RayCast(renderGroups, ray, FALSE, 0, 0)
               hitsLight == res.found /\ IsEmissive(renderGroups[res.group].material)
               intersectionRadianceFactor ==
                   IF hitsLight
                   THEN renderGroups[res.group].primitives[res.prim].cosine[ray]
                   ELSE 0
               light == CalculateDiffuseLighting(rc.material, cos,
                            VScale(intersectionRadianceFactor,
                                   lightSource.material.emissionColor))
           IN rc' = [rc EXCEPT !.i = @ + 1,
                               !.colorAccumulator =
                                   IF hitsLight THEN VAdd(@, light) ELSE @]
    /\ UNCHANGED <<sceneVars, lastOp>>
    /\ UNCHANGED renderVars

\* return (1.0f / (float)emissiveRenderGroups.size()) * colorAccumulator:
\* with no light source the factor is infinite and its product with the
\* zero accumulator is not a number
ReturnIllumination ==
    /\ lastOp = "CalculateDirectIlluminationAtPos" /\ rc.pc = "loop"
    /\ rc.i > Len(emissiveRenderGroups)
    /\ LET size == Len(emissiveRenderGroups)
       IN rc' = [rc EXCEPT !.pc = "done", !.divisor = size,
                           !.result = IF size = 0 THEN Vec3(NaN)
                                      ELSE VScale(ONE \div size, rc.colorAccumulator)]
    /\ UNCHANGED <<sceneVars, lastOp>>
    /\ UNCHANGED renderVars

\* an initialized scene, no renderer
IlluminationInit ==
    /\ renderGroups \in TraceScenes
    /\ rgStorage = 0
    /\ LET once == CollectEmissive(renderGroups, rgStorage, <<>>, 1)
       IN emissiveRenderGroups \in {once, CollectEmissive(renderGroups, rgStorage, once, 1)}
    /\ axisAlignedBoundingBox = SceneBoundingBox(renderGroups)
    /\ lastOp = "Initialize"
    /\ rc = NoCall
    /\ renderer = NoRenderer
    /\ cullDefault = TRUE
    /\ photonMap = NoPhotonMap
    /\ volatilePhotonMapNodes = <<>>
    /\ stack = [w \in Workers |-> <<>>]
    /\ pixel = [w \in Workers |-> NoColor]

IlluminationNext ==
    \/ CalculateDirectIlluminationAtPos
    \/ IlluminateFromLight
    \/ ReturnIllumination

IlluminationSpec == IlluminationInit /\ [][IlluminationNext]_vars

----------------------------------------------------------------------------
(* Claims about construction *)

\* C11: a constructor given a malformed configuration ends in an error and
\* leaves no usable object: no renderer exists with MAX_DEPTH = 0, no
\* PhotonMapRenderer was constructed over an empty emissive set, and no
\* material of the scene has a refractive index below 1.
C11_MalformedRejected ==
    /\ renderer.kind # None => renderer.MAX_DEPTH >= 1
    /\ (lastOp = "Construct" /\ renderer.kind = "PhotonMap") => emissiveRenderGroups # <<>>
    /\ \A i \in 1..Len(renderGroups) : renderGroups[i].material.refractiveIndex >= ONE

----------------------------------------------------------------------------
(* Claims about Scene::Initialize *)

\* C1: calling Initialize twice in a row leaves emissiveRenderGroups (length and
\* order) and the scene AABB as they were after the first call.
C1_InitializeIdempotent ==
    [][(lastOp = "Initialize" /\ lastOp' = "Initialize")
        => /\ emissiveRenderGroups' = emissiveRenderGroups
           /\ axisAlignedBoundingBox' = axisAlignedBoundingBox]_vars

Referenced(i) ==
    \E k \in 1..Len(emissiveRenderGroups) :
        emissiveRenderGroups[k] = Address(rgStorage, i)

\* C2: when Initialize has returned, a render group is referenced by
\* emissiveRenderGroups if and only if its material is emissive.
C2_EmissiveSetConsistency ==
    lastOp = "Initialize" =>
        \A i \in 1..Len(renderGroups) :
            Referenced(i) <=> IsEmissive(renderGroups[i].material)

C2_Witness ==
    /\ lastOp = "Initialize"
    /\ \E i, j \in 1..Len(renderGroups) :
           /\ IsEmissive(renderGroups[i].material) /\ Referenced(i)
           /\ ~IsEmissive(renderGroups[j].material) /\ ~Referenced(j)

WellFormed(box) == \A c \in 1..3 : box.minimum[c] <= box.maximum[c]

\* C13: when Initialize has returned, on any scene, also one without
\* primitives, the minimum corner of the scene AABB is less than or equal to
\* its maximum corner in every component.
C13_SceneBoxWellFormed ==
    lastOp = "Initialize" => WellFormed(axisAlignedBoundingBox)

----------------------------------------------------------------------------
(* Claims about Scene::RayCast *)
Slots(groups) ==
    {s \in (1..Len(groups)) \X (1..MaxPrimitives + 1) : s[2] <= Len(groups[s[1]].primitives)}
Intersecting(groups, ray, cull) ==
    {s \in Slots(groups) : RayIntersection(groups[s[1]].primitives[s[2]], ray, cull)}
DistanceAt(groups, ray, s) == groups[s[1]].primitives[s[2]].t[ray]
LexLess(a, b) == a[1] < b[1] \/ (a[1] = b[1] /\ a[2] < b[2])

\* C3: RayCast reports a hit exactly when some primitive intersects the ray, at
\* the minimum distance over all primitives, on the intersecting primitive of
\* that distance with the smallest (group index, primitive index).
C3_NearestHit ==
    rc.called =>
        LET hits == Intersecting(renderGroups, rc.ray, rc.cullBackFace)
            res == rc.result
        IN IF hits = {} THEN ~res.found
           ELSE /\ res.found
                /\ <<res.group, res.prim>> \in hits
                /\ res.distance = DistanceAt(renderGroups, rc.ray, <<res.group, res.prim>>)
                /\ \A s \in hits :
                       /\ res.distance <= DistanceAt(renderGroups, rc.ray, s)
                       /\ DistanceAt(renderGroups, rc.ray, s) = res.distance
                              => ~LexLess(s, <<res.group, res.prim>>)

\* a tie at the minimum distance between primitives of two groups, with a
\* farther primitive in the scene as well
C3_Witness ==
    /\ rc.called /\ rc.result.found
    /\ \E s \in Intersecting(renderGroups, rc.ray, rc.cullBackFace) :
           /\ s[1] > rc.result.group
           /\ DistanceAt(renderGroups, rc.ray, s) = rc.result.distance

\* C4: adding a primitive (to an existing or to a new render group) keeps
\* every hit and never lengthens the distance RayCast returns.
C4_RayCastMonotone ==
    [][renderGroups' # renderGroups =>
        \A ray \in Rays, cull \in BOOLEAN :
            LET before == RayCast(renderGroups, ray, cull, 0, 0)
                after == RayCast(renderGroups', ray, cull, 0, 0)
            IN before.found => (after.found /\ after.distance <= before.distance)]_vars

WithoutLast(groups) ==
    [groups EXCEPT ![Len(groups)].primitives = SubSeq(@, 1, Len(@) - 1)]

\* the primitive added last is nearer than the hit there was without it
C4_Witness ==
    /\ renderGroups # <<>>
    /\ renderGroups[Len(renderGroups)].primitives # <<>>
    /\ \E ray \in Rays :
           LET before == RayCast(WithoutLast(renderGroups), ray, TRUE, 0, 0)
               after == RayCast(renderGroups, ray, TRUE, 0, 0)
           IN before.found /\ after.found /\ after.distance < before.distance

----------------------------------------------------------------------------
(* Claims about the renderers *)
Frames(w) == {stack[w][k] : k \in 1..Len(stack[w])}
AllFrames == UNION {Frames(w) : w \in Workers}

\* C5: on a scene without primitives RayCast finds no hit for any ray, and
\* MonteCarloRenderer::GetPixelColor returns (0,0,0) when MAX_DEPTH >= 1.
C5_EmptyScene ==
    NumPrimitives(renderGroups) = 0 =>
        /\ \A ray \in TraceRays, cull \in BOOLEAN :
               ~RayCast(renderGroups, ray, cull, 0, 0).found
        /\ (renderer.kind = "MonteCarlo" /\ renderer.MAX_DEPTH >= 1) =>
               \A w \in Workers : pixel[w] \in {NoColor, Vec3(0)}

C5_Witness ==
    /\ NumPrimitives(renderGroups) = 0
    /\ renderGroups # <<>>
    /\ renderer.kind = "MonteCarlo" /\ renderer.MAX_DEPTH >= 1
    /\ pixel["w1"] = Vec3(0)

DepthBounded ==
    \A w \in Workers : \A k \in 1..Len(stack[w]) :
        LET f == stack[w][k]
        IN /\ f.depth = k - 1
           /\ f.depth <= renderer.MAX_DEPTH
           /\ f.depth = renderer.MAX_DEPTH =>
                  \/ f.pc = "entry"
                  \/ f.pc = "done" /\ f.via = "limit" /\ f.value = Vec3(0)

\* C6: every call TraceRay(ray, 0) terminates; a recursive call has the depth of
\* its caller plus one, a call at DEPTH = MAX_DEPTH returns black before it
\* casts a ray, and no call runs its body at DEPTH >= MAX_DEPTH.
C6_DepthBoundedTermination ==
    /\ []DepthBounded
    /\ (stack["w1"] # <<>>) ~> (stack["w1"] = <<>>)

\* a call at the depth limit is about to return black to a caller that is
\* two levels below the primary ray
C6_Witness ==
    /\ renderer.MAX_DEPTH >= 2
    /\ Len(stack["w1"]) = renderer.MAX_DEPTH + 1
    /\ Top("w1").pc = "done" /\ Top("w1").via = "limit"

\* C7: no step of GetPixelColor / TraceRay changes the scene's render groups
\* (primitives and materials), emissiveRenderGroups, the scene AABB or the
\* photons stored in the photon map.
C7_RenderingReadOnly ==
    [][UNCHANGED <<renderGroups, emissiveRenderGroups, axisAlignedBoundingBox,
                   photonMap>>]_vars

\* the photon-map renderer has gathered photons and returned a pixel
C7_Witness ==
    /\ renderer.kind = "PhotonMap"
    /\ volatilePhotonMapNodes # <<>>
    /\ photonMap.indirect # <<>>
    /\ pixel["w1"] \notin {NoColor, Vec3(0)}

\* C8: while a worker is in its gather (between its radius query and the end
\* of its loop) the photons it iterates over, and the count its 1/|photons|
\* factor is taken from, are the result of its own query.
C8_ScratchPerWorker ==
    \A w \in Workers :
        (stack[w] # <<>> /\ Top(w).pc \in {"size", "photons"}) =>
            volatilePhotonMapNodes = Top(w).queried

\* C9: a call whose nearest front-facing hit is emissive returns exactly the
\* emission colour at DEPTH 0 and emission * dot(-dir, N) at DEPTH >= 1.
C9_EmissiveBranch ==
    \A f \in AllFrames :
        (f.pc = "done" /\ f.via = "emissive") =>
            f.value = IF f.depth = 0 THEN HitMaterial(f).emissionColor
                      ELSE VScale(f.cos, HitMaterial(f).emissionColor)

PureMirror(m) == m.reflectivity = ONE /\ m.transparency = 0
MirrorReturns(f) ==
    /\ f.pc = "done" /\ f.via = "body"
    /\ PureMirror(HitMaterial(f))
    /\ renderer.MAX_DEPTH >= 2

\* C10 as stated: with either renderer, the radiance returned for a ray that
\* hits a pure mirror is reflectivity times the radiance of the reflected ray.
C10_MirrorNoOtherFactor ==
    \A f \in AllFrames :
        MirrorReturns(f) => f.value = VScale(HitMaterial(f).reflectivity, f.reflected)

\* C10 amended: the Monte Carlo renderer returns reflectivity times the
\* radiance of the reflected ray; the photon-map renderer returns 0.95 times
\* that product.
C10_MirrorDamped ==
    \A f \in AllFrames :
        MirrorReturns(f) =>
            f.value = IF renderer.kind = "MonteCarlo"
                      THEN VScale(HitMaterial(f).reflectivity, f.reflected)
                      ELSE VScale(Damping, VScale(HitMaterial(f).reflectivity, f.reflected))

C10_Witness ==
    /\ renderer.kind = "PhotonMap"
    /\ \E f \in AllFrames : MirrorReturns(f) /\ f.reflected # Vec3(0) /\ f.depth = 0

----------------------------------------------------------------------------
(* Claims about degenerate rays *)

\* C12: a call of TraceRay, of either renderer, with a ray that is not of unit
\* length fails no assertion and returns zero radiance to its caller.
C12_NonUnitRaysAbsorbed ==
    \A f \in AllFrames :
        ~IsUnitLength(f.ray) =>
            /\ f.pc # "failed"
            /\ f.pc = "done" => f.value = Vec3(0)

----------------------------------------------------------------------------
(* Claims about the photon gather *)

\* what a caustic photon near the hit point adds to the radiance of the hit
CausticContribution(m, node) ==
    CalculateDiffuseLighting(m, node.cosIn,
        VScale(Mul(Max2(0, node.normalDot), node.weight), node.color))

\* C14: when PhotonMapRenderer::TraceRay comes to its direct-lighting loop on a
\* non-emissive hit, it has gathered the caustic photons within the search
\* radius of the hit point: the accumulator holds what they contribute, so
\* it is not black when one of them contributes light.
C14_CausticGather ==
    \A f \in AllFrames :
        (renderer.kind = "PhotonMap" /\ f.pc = "direct" /\ f.i = 1) =>
            \A k \in 1..Len(photonMap.caustic) :
                LET node == photonMap.caustic[k]
                IN (f.ray \in node.near
                       /\ CausticContribution(HitMaterial(f), node) # Black)
                   => f.acc # Black

----------------------------------------------------------------------------
(* Claims about refraction *)

\* C15: when the refracted ray hits its render group again, the normal that
\* the second refraction and the exit offset use, with either renderer, is
\* the normal of the primitive it hit, evaluated at the point where the
\* refracted ray hit it, and not at the point where the incoming ray entered.
C15_ExitNormalAtExitPoint ==
    \A f \in AllFrames :
        f.refractedIntersectionPoint # NoPoint =>
            /\ f.refractedHitNormal.at = f.refractedIntersectionPoint
            /\ f.refractedHitNormal.at # f.intersectionPoint

----------------------------------------------------------------------------
(* Claims about direct lighting *)
TopNext(w) == stack'[w][Len(stack'[w])]

\* the nearest hit of a ray over the whole scene lies in render group g
NearestHitIn(ray, g) ==
    LET hits == Intersecting(renderGroups, ray, cullDefault)
    IN \E s \in hits :
           /\ s[1] = g
           /\ \A u \in hits :
                  /\ DistanceAt(renderGroups, ray, s) <= DistanceAt(renderGroups, ray, u)
                  /\ DistanceAt(renderGroups, ray, u) = DistanceAt(renderGroups, ray, s)
                         => ~LexLess(u, s)

\* C16: an iteration of the direct-lighting loop, of either renderer, adds
\* light to the accumulator only if the nearest hit of its shadow ray over
\* the whole scene lies in the emissive group the iteration is for; when the
\* shadow ray misses or first hits another group the accumulator stays.
C16_LightCountedWhenVisible ==
    [][(Running("w1", "direct") /\ Len(stack'["w1"]) = Len(stack["w1"])
            /\ TopNext("w1").acc # Top("w1").acc)
        => NearestHitIn(TopNext("w1").shadowRay,
                        emissiveRenderGroups[Top("w1").i].idx)]_vars

\* the loop has run over two lights: one was counted, and the shadow ray of
\* the last iteration met another light before the one it was cast for
C16_Witness ==
    /\ Running("w1", "direct")
    /\ LET f == Top("w1")
       IN /\ f.i > Len(emissiveRenderGroups) /\ f.i > 2
          /\ f.acc # Black
          /\ f.shadowRay \in Rays
          /\ Intersecting(renderGroups, f.shadowRay, cullDefault) # {}
          /\ ~NearestHitIn(f.shadowRay, emissiveRenderGroups[f.i - 1].idx)

----------------------------------------------------------------------------
(* Claims about averaging *)

\* C17: the divisor of every averaging step is at least 1, whatever the
\* scene: the number of light sources that TraceRay of both renderers and
\* Scene::CalculateDirectIlluminationAtPos divide by, also in a scene without
\* emissive render groups, and the number of gathered photons.
C17_DivisorAtLeastOne ==
    /\ LightDivisor(Len(emissiveRenderGroups)) >= 1
    /\ \A f \in AllFrames :
           (f.pc = "photons" /\ f.sizeFactor # 0) => Len(f.queried) >= 1
    /\ (lastOp = "CalculateDirectIlluminationAtPos" /\ rc.pc = "done")
           => rc.divisor >= 1

====
